---- MODULE Spec2Model ----
(***************************************************************************)
(* Model of util/analyze_in_out.py (reconciliation of contributor          *)
(* StudyDescription/Modality combinations against the mapping table, and   *)
(* validation of the mapping table) and of util/xlsx2tsv.py (extraction of *)
(* mapping rows from a workbook, duplicate detection and merge with a      *)
(* previous mapping).                                                      *)
(*                                                                         *)
(* A cell value is a sequence of one-character strings; the missing value  *)
(* pandas reads from an empty field is NaN.  A table is a record           *)
(* [cols |-> sequence of column names, rows |-> sequence of rows], a row a *)
(* function from the column names to cell values.                          *)
(***************************************************************************)
EXTENDS Integers, Sequences, FiniteSets, TLC

VARIABLES
    \* the key normalizer on its own
    nPc, nText, nVariant, nInput, nMapping, nVariantInput, nTwice,
    \* analyze_in_out.py: the files of the repository
    mappingFile, inputFile, pendingFile,
    \* analyze_in_out.py: the run
    aPc, mapping_df, input_df, differences_df, exitStatus,
    \* analyze_in_out.py --validate
    validation_passed, inconsistent_desc_mod, inconsistent_loinc,
    inconsistent_desc_only, checksRun,
    \* xlsx2tsv.py: the files and the command line
    workbook, previousArg, mergedArg, previousFile, outputFile, mergedFile,
    \* xlsx2tsv.py: the run
    xPc, runNo, sheetIdx, all_data, processed_count, skipped_count,
    combined_df, previous_df, duplicates, unique_new, merged_df, xExit

normVars == <<nPc, nText, nVariant, nInput, nMapping, nVariantInput, nTwice>>

analyzeFiles == <<mappingFile, inputFile, pendingFile>>

diffVars == <<input_df, differences_df>>

validateVars == <<validation_passed, inconsistent_desc_mod, inconsistent_loinc,
                  inconsistent_desc_only, checksRun>>

analyzeVars == <<analyzeFiles, aPc, mapping_df, exitStatus, diffVars,
                 validateVars>>

xlsxFiles == <<workbook, previousArg, mergedArg, previousFile, outputFile,
               mergedFile>>

xlsxRun == <<sheetIdx, all_data, processed_count, skipped_count, combined_df,
             previous_df, duplicates, unique_new, merged_df>>

xlsxVars == <<xlsxFiles, xPc, runNo, xlsxRun, xExit>>

vars == <<normVars, analyzeVars, xlsxVars>>

-----------------------------------------------------------------------------
(* Bounds *)

\* longest raw string drawn for the normalizer
MaxLen == 4

\* most rows of the mapping table given to --validate
MaxMappingRows == 3

\* most rows of the mapping table and of the contributor table in diff mode
MaxReferenceRows == 2
MaxCandidateRows == 2

\* most rows of a sheet of the workbook and of the previous mapping
MaxSheetRows == 1
MaxPreviousRows == 2

\* most runs of xlsx2tsv.py in a row, each merging into the result of the last
MaxRuns == 2

-----------------------------------------------------------------------------
(* Cell values and the pandas string methods the scripts use *)

\* the missing value (an empty field read by read_csv / read_excel)
NaN == <<"NaN">>

\* the characters \s matches, among the characters of the model
Whitespace == {" ", "\t"}

IsSpace(c) == c \in Whitespace

\* lower-case letters of the model and their upper-case forms
UpperOf == [c \in {"a", "b"} |-> IF c = "a" THEN "A" ELSE "B"]

UpperChar(c) == IF c \in DOMAIN UpperOf THEN UpperOf[c] ELSE c

\* length of the maximal whitespace run of s that starts at position i
RECURSIVE RunLen(_, _)
RunLen(s, i) ==
    IF i > Len(s) \/ ~IsSpace(s[i]) THEN 0 ELSE 1 + RunLen(s, i + 1)

\* A leading-whitespace alternative that consumes one character only (^\s).
WHITESPACE_PATTERN_OneLeading(s, i) ==
    LET n == RunLen(s, i) IN
    IF n = 0 THEN 0
    ELSE IF i = 1 THEN 1
    ELSE IF i + n - 1 = Len(s) THEN n
    ELSE IF n >= 2 THEN n - 1
    ELSE 0

\* WHITESPACE_PATTERN = r"^\s+|\s+$|\s+(?=\s)": the length of its match at
\* position i of s, 0 when it does not match there.  The alternatives are
\* tried in order: a run at the start of the string, a run that reaches the
\* end of the string, all but the last character of any other run.
WHITESPACE_PATTERN(s, i) ==
    LET n == RunLen(s, i) IN
    IF n = 0 THEN 0
    ELSE IF i = 1 THEN n
    ELSE IF i + n - 1 = Len(s) THEN n
    ELSE IF n >= 2 THEN n - 1
    ELSE 0

\* re.sub(WHITESPACE_PATTERN, repl, s) from position i on: matches are found
\* left to right, each replaced by repl, unmatched characters copied.
RECURSIVE RegexSub(_, _, _)
RegexSub(s, repl, i) ==
    IF i > Len(s) THEN <<>>
    ELSE LET m == WHITESPACE_PATTERN(s, i) IN
         IF m > 0 THEN repl \o RegexSub(s, repl, i + m)
         ELSE <<s[i]>> \o RegexSub(s, repl, i + 1)

\* Series.str.replace(WHITESPACE_PATTERN, repl, regex=True) on one cell
str_replace(v, repl) == IF v = NaN THEN NaN ELSE RegexSub(v, repl, 1)

\* Series.str.upper() on one cell
str_upper(v) ==
    IF v = NaN THEN NaN ELSE [i \in 1..Len(v) |-> UpperChar(v[i])]

\* Series.str.replace(" ", "") on one cell: only the space character goes
str_replace_space(v) ==
    IF v = NaN THEN NaN ELSE SelectSeq(v, LAMBDA c : c # " ")

\* first position >= i of s that holds no whitespace, Len(s)+1 if none
RECURSIVE SkipSpace(_, _)
SkipSpace(s, i) ==
    IF i > Len(s) \/ ~IsSpace(s[i]) THEN i ELSE SkipSpace(s, i + 1)

\* last position <= i of s that holds no whitespace, 0 if none
RECURSIVE SkipSpaceBack(_, _)
SkipSpaceBack(s, i) ==
    IF i < 1 \/ ~IsSpace(s[i]) THEN i ELSE SkipSpaceBack(s, i - 1)

\* Series.str.strip() on one cell
str_strip(v) ==
    IF v = NaN THEN NaN
    ELSE LET a == SkipSpace(v, 1)
             b == SkipSpaceBack(v, Len(v))
         IN IF a > b THEN <<>> ELSE SubSeq(v, a, b)

\* the reference-side clean-up with the upper-casing left out
NormalizeMappingSD_NoUpper(v) == str_replace(v, <<>>)

\* StudyDescription of a candidate row: load_and_clean_input_data
NormalizeInputSD(v) == str_upper(str_replace(v, <<>>))

\* StudyDescription of a reference row: load_and_prepare_mapping_table
\* and validate_mapping_table
NormalizeMappingSD(v) == str_upper(str_replace(v, <<>>))

-----------------------------------------------------------------------------
(* Tables and files *)

\* a DataFrame: the column names in order and the rows
Table(cols, rows) == [cols |-> cols, rows |-> rows]

EmptyTable == Table(<<>>, <<>>)

\* a delimited text file of the repository, or its absence
File(cols, rows) == [exists |-> TRUE, cols |-> cols, rows |-> rows]

NoFile == [exists |-> FALSE, cols |-> <<>>, rows |-> <<>>]

\* the set of the elements of a sequence
Range(seq) == {seq[i] : i \in 1..Len(seq)}

\* all sequences of at most n elements of S
SeqUpTo(S, n) == UNION {[1..k -> S] : k \in 0..n}

\* the columns of the mapping table, out/StudyDescription_mapping_table.tsv
MappingCols == <<"Modality", "StudyDescription", "LOINC code", "L-Long Common Name">>

MappingRow(m, sd, code, name) ==
    [c \in Range(MappingCols) |->
        IF c = "Modality" THEN m
        ELSE IF c = "StudyDescription" THEN sd
        ELSE IF c = "LOINC code" THEN code
        ELSE name]

\* Series.str on a column read from a file: pandas reads a column with rows
\* but no value as float64, and .str then raises AttributeError
StrAccessorRaises(rows, c) ==
    /\ Len(rows) > 0
    /\ \A i \in 1..Len(rows) : rows[i][c] = NaN

-----------------------------------------------------------------------------
(* analyze_in_out.py: state outside a run *)

\* the normalizer is not exercised on its own
NormIdle ==
    /\ nPc = "idle"
    /\ nText = <<>>
    /\ nVariant = <<>>
    /\ nInput = NaN
    /\ nMapping = NaN
    /\ nVariantInput = NaN
    /\ nTwice = NaN

\* no run of analyze_in_out.py
AnalyzeIdle ==
    /\ mappingFile = NoFile
    /\ inputFile = NoFile
    /\ pendingFile = NoFile
    /\ aPc = "idle"
    /\ mapping_df = EmptyTable
    /\ input_df = EmptyTable
    /\ differences_df = EmptyTable
    /\ exitStatus = -1
    /\ validation_passed = "unset"
    /\ inconsistent_desc_mod = {}
    /\ inconsistent_loinc = {}
    /\ inconsistent_desc_only = {}
    /\ checksRun = <<>>

\* a DataFrame variable that holds None
None == [none |-> TRUE]

\* no run of xlsx2tsv.py
XlsxIdle ==
    /\ workbook = [exists |-> FALSE, sheets |-> <<>>]
    /\ previousArg = FALSE
    /\ mergedArg = FALSE
    /\ previousFile = NoFile
    /\ outputFile = NoFile
    /\ mergedFile = NoFile
    /\ xPc = "idle"
    /\ runNo = 0
    /\ sheetIdx = 0
    /\ all_data = <<>>
    /\ processed_count = 0
    /\ skipped_count = 0
    /\ combined_df = None
    /\ previous_df = None
    /\ duplicates = None
    /\ unique_new = None
    /\ merged_df = None
    /\ xExit = -1

-----------------------------------------------------------------------------
(* analyze_in_out.py --validate *)

\* DataFrame.groupby(keys)[col].nunique(): one entry per group of rows that
\* agree on the key columns, rows with a missing key left out (dropna), its
\* value the number of distinct non-missing values of col in the group
GroupNunique(rows, keys, col) ==
    LET valid == {i \in 1..Len(rows) : \A k \in keys : rows[i][k] # NaN}
        groups == {[k \in keys |-> rows[i][k]] : i \in valid}
        members(g) == {i \in valid : \A k \in keys : rows[i][k] = g[k]}
    IN [g \in groups |->
          Cardinality({rows[i][col] : i \in members(g)} \ {NaN})]

\* series[series > 1]: the groups with more than one distinct value
MoreThanOne(series) == {g \in DOMAIN series : series[g] > 1}

\* L-Long Common Name as validate_mapping_table prepares it
NormalizeName(v) == str_strip(str_replace(v, <<" ">>))

\* LOINC code as validate_mapping_table prepares it
NormalizeCode(v) == str_replace(v, <<>>)

\* a row of the mapping table as validate_mapping_table prepares it:
\* spaces removed from Modality (kept joined), StudyDescription normalized,
\* LOINC code and L-Long Common Name cleaned
ValidateRow(r) ==
    [c \in DOMAIN r |->
        IF c = "Modality" THEN str_replace_space(r[c])
        ELSE IF c = "StudyDescription" THEN NormalizeMappingSD(r[c])
        ELSE IF c = "LOINC code" THEN NormalizeCode(r[c])
        ELSE IF c = "L-Long Common Name" THEN NormalizeName(r[c])
        ELSE r[c]]

\* validation_passed after check 1 or check 2 found `inconsistent`
FailedCheck(passed, inconsistent) ==
    IF Cardinality(inconsistent) > 0 THEN "False" ELSE passed

\* an advisory check that fails the validation
AdvisoryCheck_Fails(passed, inconsistent) ==
    IF Cardinality(inconsistent) > 0 THEN "False" ELSE passed

\* validation_passed after check 3 found `inconsistent`: a warning only
AdvisoryCheck(passed, inconsistent) == passed

\* the mapping tables given to --validate: rows that agree or differ in
\* key and code, and rows that agree or differ in code and name
KeyRows ==
    {MappingRow(m, sd, code, <<"a", " ", "b">>) :
        m \in {NaN, <<"X", "R">>, <<"X", "R", ",", "C", "T">>,
               <<"X", "R", ",", " ", "C", "T">>},
        sd \in {<<"a">>, <<"A", " ">>},
        code \in {<<"1">>, <<"2">>}}

NameRows ==
    {MappingRow(<<"X", "R">>, sd, code, name) :
        sd \in {<<"a">>, <<"b">>},
        code \in {<<"1">>, <<"2">>},
        name \in {<<"a", " ", "b">>, <<"a", " ", " ", "b">>, <<"A", " ", "b">>}}

ValidateTables ==
    SeqUpTo(KeyRows, MaxMappingRows) \cup SeqUpTo(NameRows, MaxMappingRows)

InitValidate ==
    /\ NormIdle
    /\ XlsxIdle
    /\ \/ mappingFile = NoFile
       \/ \E rows \in ValidateTables : mappingFile = File(MappingCols, rows)
    /\ inputFile = NoFile
    /\ pendingFile = NoFile
    /\ aPc = "validate"
    /\ mapping_df = EmptyTable
    /\ input_df = EmptyTable
    /\ differences_df = EmptyTable
    /\ exitStatus = -1
    /\ validation_passed = "unset"
    /\ inconsistent_desc_mod = {}
    /\ inconsistent_loinc = {}
    /\ inconsistent_desc_only = {}
    /\ checksRun = <<>>

\* sys.exit(code), or an exception that main turns into sys.exit(1)
Exit(code) ==
    /\ aPc' = "done"
    /\ exitStatus' = code

\* validate_mapping_table up to validation_passed = True: the mapping file
\* is read and its four columns normalized, Modality kept joined
ValidateLoad ==
    /\ aPc = "validate"
    /\ IF ~mappingFile.exists
       THEN Exit(1) /\ UNCHANGED <<mapping_df, validation_passed>>
       ELSE IF \E c \in Range(MappingCols) : StrAccessorRaises(mappingFile.rows, c)
       THEN Exit(1) /\ UNCHANGED <<mapping_df, validation_passed>>
       ELSE /\ mapping_df' =
                Table(mappingFile.cols,
                      [i \in 1..Len(mappingFile.rows) |->
                          ValidateRow(mappingFile.rows[i])])
            /\ validation_passed' = "True"
            /\ aPc' = "check1"
            /\ UNCHANGED exitStatus
    /\ UNCHANGED <<analyzeFiles, diffVars, inconsistent_desc_mod,
                   inconsistent_loinc, inconsistent_desc_only, checksRun>>
    /\ UNCHANGED <<normVars, xlsxVars>>

\* Check 1: same Modality and StudyDescription, different LOINC codes
Check1 ==
    /\ aPc = "check1"
    /\ LET found == MoreThanOne(GroupNunique(mapping_df.rows,
                        {"Modality", "StudyDescription"}, "LOINC code"))
       IN /\ inconsistent_desc_mod' = found
          /\ validation_passed' = FailedCheck(validation_passed, found)
    /\ checksRun' = Append(checksRun, 1)
    /\ aPc' = "check2"
    /\ UNCHANGED <<analyzeFiles, mapping_df, exitStatus, diffVars,
                   inconsistent_loinc, inconsistent_desc_only>>
    /\ UNCHANGED <<normVars, xlsxVars>>

\* Check 2: same LOINC code, different L-Long Common Names
Check2 ==
    /\ aPc = "check2"
    /\ LET found == MoreThanOne(GroupNunique(mapping_df.rows,
                        {"LOINC code"}, "L-Long Common Name"))
       IN /\ inconsistent_loinc' = found
          /\ validation_passed' = FailedCheck(validation_passed, found)
    /\ checksRun' = Append(checksRun, 2)
    /\ aPc' = "check3"
    /\ UNCHANGED <<analyzeFiles, mapping_df, exitStatus, diffVars,
                   inconsistent_desc_mod, inconsistent_desc_only>>
    /\ UNCHANGED <<normVars, xlsxVars>>

\* Check 3: same StudyDescription, different LOINC codes across Modalities
Check3 ==
    /\ aPc = "check3"
    /\ LET found == MoreThanOne(GroupNunique(mapping_df.rows,
                        {"StudyDescription"}, "LOINC code"))
       IN /\ inconsistent_desc_only' = found
          /\ validation_passed' = AdvisoryCheck(validation_passed, found)
    /\ checksRun' = Append(checksRun, 3)
    /\ aPc' = "summary"
    /\ UNCHANGED <<analyzeFiles, mapping_df, exitStatus, diffVars,
                   inconsistent_desc_mod, inconsistent_loinc>>
    /\ UNCHANGED <<normVars, xlsxVars>>

\* main: sys.exit(0 if validation_passed else 1)
ExitCodeOf(passed) == IF passed = "True" THEN 0 ELSE 1

\* the summary, the return of validate_mapping_table and main's sys.exit
ValidateReturn ==
    /\ aPc = "summary"
    /\ Exit(ExitCodeOf(validation_passed))
    /\ UNCHANGED <<analyzeFiles, mapping_df, diffVars, validateVars>>
    /\ UNCHANGED <<normVars, xlsxVars>>

NextValidate == ValidateLoad \/ Check1 \/ Check2 \/ Check3 \/ ValidateReturn

SpecValidate == InitValidate /\ [][NextValidate]_vars

-----------------------------------------------------------------------------
(* analyze_in_out.py, diff mode *)

CONTRIBUTOR_NAME == <<"G", "e", "n", "3">>

DEFAULT_FREQUENCY == <<"N", "/", "A">>

COLUMNS_OUTPUT == <<"StudyDescription", "Modality", "frequency", "Contributor">>

\* the columns the merge joins on
MergeKeys == <<"StudyDescription", "Modality">>

\* code points of the characters of the model, for the order of strings
CodePoint ==
    [c \in {"\t", " ", ",", "/", "1", "2", "3", "A", "B", "C", "G", "M", "N",
            "P", "R", "T", "X", "a", "b", "e", "n"} |->
        CASE c = "\t" -> 9   [] c = " " -> 32  [] c = "," -> 44  [] c = "/" -> 47
          [] c = "1" -> 49   [] c = "2" -> 50  [] c = "3" -> 51  [] c = "A" -> 65
          [] c = "B" -> 66   [] c = "C" -> 67  [] c = "G" -> 71  [] c = "M" -> 77
          [] c = "N" -> 78   [] c = "P" -> 80  [] c = "R" -> 82  [] c = "T" -> 84
          [] c = "X" -> 88   [] c = "a" -> 97  [] c = "b" -> 98  [] c = "e" -> 101
          [] c = "n" -> 110]

\* s < t as Python compares strings
RECURSIVE StrLess(_, _)
StrLess(s, t) ==
    IF t = <<>> THEN FALSE
    ELSE IF s = <<>> THEN TRUE
    ELSE IF s[1] # t[1] THEN CodePoint[s[1]] < CodePoint[t[1]]
    ELSE StrLess(Tail(s), Tail(t))

\* v sorts before w, missing values last
ValueLess(v, w) ==
    IF v = NaN THEN FALSE ELSE IF w = NaN THEN TRUE ELSE StrLess(v, w)

\* the key of a row
KeyOf(row) == <<row["StudyDescription"], row["Modality"]>>

\* key k sorts before key l, lexicographically
KeyLess(k, l) ==
    \/ ValueLess(k[1], l[1])
    \/ (k[1] = l[1] /\ ValueLess(k[2], l[2]))

\* str.split(",") from position i on, cur being the atom read so far
RECURSIVE SplitFrom(_, _, _)
SplitFrom(s, i, cur) ==
    IF i > Len(s) THEN <<cur>>
    ELSE IF s[i] = "," THEN <<cur>> \o SplitFrom(s, i + 1, <<>>)
    ELSE SplitFrom(s, i + 1, Append(cur, s[i]))

\* Series.str.split(",") on one cell: the list of atoms, NaN if missing
str_split(v) == IF v = NaN THEN NaN ELSE SplitFrom(v, 1, <<>>)

\* DataFrame.explode("Modality") of one row whose Modality is a list (or
\* NaN): one row per element, a missing Modality giving one row
ExplodeRow(r, atoms) ==
    IF atoms = NaN THEN <<r>>
    ELSE [k \in 1..Len(atoms) |-> [r EXCEPT !["Modality"] = atoms[k]]]

\* DataFrame.explode("Modality") of the rows from row i on
RECURSIVE Explode(_, _)
Explode(rows, i) ==
    IF i > Len(rows) THEN <<>>
    ELSE ExplodeRow(rows[i], str_split(rows[i]["Modality"]))
         \o Explode(rows, i + 1)

\* DataFrame.drop_duplicates(): the first occurrence of every row is kept
drop_duplicates(rows) ==
    LET keep == SelectSeq([i \in 1..Len(rows) |-> i],
                   LAMBDA i : \A j \in 1..(i - 1) : rows[j] # rows[i])
    IN [k \in 1..Len(keep) |-> rows[keep[k]]]

\* the reference rows with an exploded view that leaves the joined rows out
PrepareRows_AtomsOnly(rows) ==
    LET cleaned == [i \in 1..Len(rows) |->
                      [rows[i] EXCEPT !["Modality"] = str_replace_space(@)]]
        unioned == drop_duplicates(Explode(cleaned, 1))
    IN [i \in 1..Len(unioned) |->
          [unioned[i] EXCEPT
              !["StudyDescription"] = NormalizeMappingSD(@)]]

\* load_and_prepare_mapping_table on the rows read: spaces removed from
\* Modality, the rows as read followed by the exploded rows, duplicates
\* dropped, StudyDescription normalized
PrepareRows(rows) ==
    LET cleaned == [i \in 1..Len(rows) |->
                      [rows[i] EXCEPT !["Modality"] = str_replace_space(@)]]
        unioned == drop_duplicates(cleaned \o Explode(cleaned, 1))
    IN [i \in 1..Len(unioned) |->
          [unioned[i] EXCEPT
              !["StudyDescription"] = NormalizeMappingSD(@)]]

\* load_and_clean_input_data on one row read
CleanInputRow(r) ==
    [r EXCEPT !["StudyDescription"] = NormalizeInputSD(@),
              !["Modality"] = str_replace(@, <<>>)]

\* the entries of pd.merge(left, right, on=MergeKeys, how="outer",
\* indicator=True) before they are ordered: every left row with each right
\* row of its key ("both") or alone ("left_only"), then the right rows no
\* left row matches ("right_only").  Missing keys match each other.
RECURSIVE LeftEntries(_, _, _)
LeftEntries(left, right, i) ==
    IF i > Len(left) THEN <<>>
    ELSE LET hits == SelectSeq([j \in 1..Len(right) |-> j],
                        LAMBDA j : KeyOf(right[j]) = KeyOf(left[i]))
         IN (IF hits = <<>>
             THEN <<[l |-> i, r |-> 0, key |-> KeyOf(left[i]),
                     merge |-> "left_only"]>>
             ELSE [k \in 1..Len(hits) |->
                     [l |-> i, r |-> hits[k], key |-> KeyOf(left[i]),
                      merge |-> "both"]])
            \o LeftEntries(left, right, i + 1)

RightOnlyEntries(left, right) ==
    LET lonely == SelectSeq([j \in 1..Len(right) |-> j],
                     LAMBDA j : \A i \in 1..Len(left) :
                                   KeyOf(left[i]) # KeyOf(right[j]))
    IN [k \in 1..Len(lonely) |->
          [l |-> 0, r |-> lonely[k], key |-> KeyOf(right[lonely[k]]),
           merge |-> "right_only"]]

\* e put into the sorted sequence, after the entries that do not sort
\* after it
RECURSIVE InsertByKey(_, _)
InsertByKey(e, sorted) ==
    IF sorted = <<>> THEN <<e>>
    ELSE IF KeyLess(e.key, sorted[1].key) THEN <<e>> \o sorted
    ELSE <<sorted[1]>> \o InsertByKey(e, Tail(sorted))

\* the entries ordered by key (an outer merge sorts the keys
\* lexicographically), entries of one key in their order
RECURSIVE SortByKey(_, _)
SortByKey(entries, n) ==
    IF n = 0 THEN <<>>
    ELSE InsertByKey(entries[n], SortByKey(entries, n - 1))

\* pd.merge(input_df, mapping_df, on=[...], how="outer", indicator=True)
OuterMerge(left, right) ==
    LET entries == LeftEntries(left, right, 1) \o RightOnlyEntries(left, right)
    IN SortByKey(entries, Len(entries))

\* the name a column c of one side that is no key takes in the merged
\* frame: suffixed when the other side has a column of that name
MergedName(c, otherCols, suffix) ==
    IF c \in Range(otherCols) \ Range(MergeKeys) THEN <<c, suffix>> ELSE <<c, "">>

\* the columns of the merged frame, as <<name, suffix>>
MergedCols(leftCols, rightCols) ==
    {<<k, "">> : k \in Range(MergeKeys)}
    \cup {MergedName(c, rightCols, "_x") : c \in Range(leftCols) \ Range(MergeKeys)}
    \cup {MergedName(c, leftCols, "_y") : c \in Range(rightCols) \ Range(MergeKeys)}

\* the frequency of an unmapped row (lines 175-180): the merged frame's
\* frequency column where it has one, DEFAULT_FREQUENCY otherwise.  A
\* left_only row holds NaN in the columns that come from the mapping table.
FrequencyOf(leftCols, rightCols, leftRow) ==
    IF <<"frequency", "">> \notin MergedCols(leftCols, rightCols)
    THEN DEFAULT_FREQUENCY
    ELSE IF "frequency" \in Range(leftCols) THEN leftRow["frequency"]
    ELSE NaN

\* a row of the frame find_unmapped_combinations returns
OutputRow(sd, m, freq) ==
    [c \in Range(COLUMNS_OUTPUT) |->
        IF c = "StudyDescription" THEN sd
        ELSE IF c = "Modality" THEN m
        ELSE IF c = "frequency" THEN freq
        ELSE CONTRIBUTOR_NAME]

\* find_unmapped_combinations(input_df, mapping_df)
find_unmapped_combinations(input, mapping) ==
    LET merged == OuterMerge(input.rows, mapping.rows)
        unmapped == SelectSeq(merged, LAMBDA e : e.merge = "left_only")
    IN Table(COLUMNS_OUTPUT,
             [k \in 1..Len(unmapped) |->
                OutputRow(unmapped[k].key[1], unmapped[k].key[2],
                          FrequencyOf(input.cols, mapping.cols,
                                      input.rows[unmapped[k].l]))])

\* e put into the sequence sorted by descending frequency, after the rows
\* that do not sort after it
RECURSIVE InsertByFrequency(_, _)
InsertByFrequency(e, sorted) ==
    IF sorted = <<>> THEN <<e>>
    ELSE IF ValueLess(sorted[1]["frequency"], e["frequency"])
              /\ e["frequency"] # NaN
         THEN <<e>> \o sorted
    ELSE <<sorted[1]>> \o InsertByFrequency(e, Tail(sorted))

\* differences_df.sort_values(by=["frequency"], ascending=False)
RECURSIVE SortByFrequency(_, _)
SortByFrequency(rows, n) ==
    IF n = 0 THEN <<>>
    ELSE InsertByFrequency(rows[n], SortByFrequency(rows, n - 1))

\* the contributor tables and mapping tables of diff mode
InputCols == <<"StudyDescription", "Modality", "frequency">>

InputColsNoFrequency == <<"StudyDescription", "Modality">>

InputRow(cols, sd, m, freq) ==
    [c \in Range(cols) |->
        IF c = "StudyDescription" THEN sd
        ELSE IF c = "Modality" THEN m
        ELSE freq]

CandidateSDs == {<<"A">>, <<" ", "a", " ", " ", "b">>}

CandidateModalities == {NaN, <<"P">>, <<"N", ",", "P">>}

CandidateFrequencies == {<<"1">>, <<"2">>}

ReferenceSDs == {<<"A", " ", "b", " ">>}

ReferenceModalities == {NaN, <<"N", ",", " ", "P">>}

CandidateFiles ==
    {NoFile}
    \cup {File(InputCols, rows) :
            rows \in SeqUpTo({InputRow(InputCols, sd, m, f) :
                                sd \in CandidateSDs, m \in CandidateModalities,
                                f \in CandidateFrequencies},
                             MaxCandidateRows)}
    \cup {File(InputColsNoFrequency, rows) :
            rows \in SeqUpTo({InputRow(InputColsNoFrequency, sd, m, NaN) :
                                sd \in CandidateSDs, m \in CandidateModalities},
                             MaxCandidateRows)}

ReferenceFiles ==
    {NoFile}
    \cup {File(MappingCols, rows) :
            rows \in SeqUpTo({MappingRow(m, sd, <<"1">>, <<"a">>) :
                                m \in ReferenceModalities, sd \in ReferenceSDs},
                             MaxReferenceRows)}

InitDiff ==
    /\ NormIdle
    /\ XlsxIdle
    /\ mappingFile \in ReferenceFiles
    /\ inputFile \in CandidateFiles
    /\ pendingFile = NoFile
    /\ aPc = "load_mapping"
    /\ mapping_df = EmptyTable
    /\ input_df = EmptyTable
    /\ differences_df = EmptyTable
    /\ exitStatus = -1
    /\ validation_passed = "unset"
    /\ inconsistent_desc_mod = {}
    /\ inconsistent_loinc = {}
    /\ inconsistent_desc_only = {}
    /\ checksRun = <<>>

\* load_and_prepare_mapping_table
LoadMapping ==
    /\ aPc = "load_mapping"
    /\ IF ~mappingFile.exists
       THEN Exit(1) /\ UNCHANGED mapping_df
       ELSE IF \/ StrAccessorRaises(mappingFile.rows, "Modality")
               \/ StrAccessorRaises(mappingFile.rows, "StudyDescription")
       THEN Exit(1) /\ UNCHANGED mapping_df
       ELSE /\ mapping_df' = Table(mappingFile.cols, PrepareRows(mappingFile.rows))
            /\ aPc' = "load_input"
            /\ UNCHANGED exitStatus
    /\ UNCHANGED <<analyzeFiles, diffVars, validateVars>>
    /\ UNCHANGED <<normVars, xlsxVars>>

\* load_and_clean_input_data, and main's return when there is no input
LoadInput ==
    /\ aPc = "load_input"
    /\ IF ~inputFile.exists
       THEN Exit(0) /\ UNCHANGED input_df
       ELSE IF \/ StrAccessorRaises(inputFile.rows, "StudyDescription")
               \/ StrAccessorRaises(inputFile.rows, "Modality")
       THEN Exit(1) /\ UNCHANGED input_df
       ELSE /\ input_df' = Table(inputFile.cols,
                                 [i \in 1..Len(inputFile.rows) |->
                                     CleanInputRow(inputFile.rows[i])])
            /\ aPc' = "find_unmapped"
            /\ UNCHANGED exitStatus
    /\ UNCHANGED <<analyzeFiles, mapping_df, differences_df, validateVars>>
    /\ UNCHANGED <<normVars, xlsxVars>>

\* find_unmapped_combinations
FindUnmapped ==
    /\ aPc = "find_unmapped"
    /\ differences_df' = find_unmapped_combinations(input_df, mapping_df)
    /\ aPc' = "save"
    /\ UNCHANGED <<analyzeFiles, mapping_df, input_df, exitStatus, validateVars>>
    /\ UNCHANGED <<normVars, xlsxVars>>

\* a save_differences without the early return on an empty frame
SaveDifferences_WritesEmpty ==
    /\ aPc = "save"
    /\ pendingFile' =
          File(differences_df.cols,
               SortByFrequency(differences_df.rows, Len(differences_df.rows)))
    /\ Exit(0)
    /\ UNCHANGED <<mappingFile, inputFile, mapping_df, diffVars, validateVars>>
    /\ UNCHANGED <<normVars, xlsxVars>>

\* save_differences, and the end of main
SaveDifferences ==
    /\ aPc = "save"
    /\ IF differences_df.rows = <<>>
       THEN UNCHANGED pendingFile
       ELSE pendingFile' =
              File(differences_df.cols,
                   SortByFrequency(differences_df.rows, Len(differences_df.rows)))
    /\ Exit(0)
    /\ UNCHANGED <<mappingFile, inputFile, mapping_df, diffVars, validateVars>>
    /\ UNCHANGED <<normVars, xlsxVars>>

NextDiff == LoadMapping \/ LoadInput \/ FindUnmapped \/ SaveDifferences

SpecDiff == InitDiff /\ [][NextDiff]_vars

\* diff mode over mapping tables with a further column and Modality cells
\* with whitespace, and with an output file left by an earlier run
MappingColsWithFrequency ==
    <<"Modality", "StudyDescription", "LOINC code", "L-Long Common Name",
      "frequency">>

ReferenceRow(cols, m, sd) ==
    [c \in Range(cols) |->
        IF c = "Modality" THEN m
        ELSE IF c = "StudyDescription" THEN sd
        ELSE IF c = "LOINC code" THEN <<"1">>
        ELSE IF c = "L-Long Common Name" THEN <<"a">>
        ELSE <<"3">>]

JoinedModality == <<"N", ",", " ", "P">>

TabbedModality == <<"P", "\t">>

ReconcileReferenceFiles ==
    {NoFile}
    \cup UNION {{File(cols, rows) :
                    rows \in SeqUpTo({ReferenceRow(cols, m, sd) :
                                        m \in {JoinedModality, TabbedModality},
                                        sd \in {<<"A">>, <<"a">>}},
                                     MaxReferenceRows)} :
                 cols \in {MappingCols, MappingColsWithFrequency}}

ReconcileCandidateFiles ==
    {NoFile}
    \cup {File(InputCols, rows) :
            rows \in SeqUpTo({InputRow(InputCols, <<"A">>, m, f) :
                                m \in {<<"P">>, JoinedModality},
                                f \in CandidateFrequencies},
                             MaxCandidateRows)}
    \cup {File(InputColsNoFrequency, rows) :
            rows \in SeqUpTo({InputRow(InputColsNoFrequency, <<"A">>, m, NaN) :
                                m \in {<<"P">>, JoinedModality}},
                             MaxCandidateRows)}

\* StudyDescription_diffs.csv as an earlier run left it
OldPendingFile ==
    File(COLUMNS_OUTPUT, <<OutputRow(<<"B">>, <<"P">>, <<"1">>)>>)

InitReconcile ==
    /\ NormIdle
    /\ XlsxIdle
    /\ mappingFile \in ReconcileReferenceFiles
    /\ inputFile \in ReconcileCandidateFiles
    /\ pendingFile \in {NoFile, OldPendingFile}
    /\ aPc = "load_mapping"
    /\ mapping_df = EmptyTable
    /\ input_df = EmptyTable
    /\ differences_df = EmptyTable
    /\ exitStatus = -1
    /\ validation_passed = "unset"
    /\ inconsistent_desc_mod = {}
    /\ inconsistent_loinc = {}
    /\ inconsistent_desc_only = {}
    /\ checksRun = <<>>

SpecReconcile == InitReconcile /\ [][NextDiff]_vars

-----------------------------------------------------------------------------
(* xlsx2tsv.py *)

\* args.sheets.split(","): the sheets asked for (the first of DEFAULT_SHEETS)
DEFAULT_SHEETS == << <<"X", "R">>, <<"C", "T">> >>

\* args.column
TARGET_COLUMN == "LOINC LCN"

columns_to_keep == <<"Modality", "StudyDescription", "LOINC code", "L-Long Common Name">>

\* the column names of filtered_df after the renames of lines 221-226
RenameColumn(c) ==
    IF c = "Suggested LOINC code" THEN "LOINC code"
    ELSE IF c = "LONIC code" THEN "LOINC code"
    ELSE IF c = "LOINC LCN" THEN "L-Long Common Name"
    ELSE c

\* a mask that tests notna() only
NonEmpty_NotNa(v) == v # NaN

\* df[target_column].notna() & (df[target_column].astype(str).str.strip() != '')
NonEmpty(v) == v # NaN /\ str_strip(v) # <<>>

\* filtered_df of one sheet: the rows whose target column is non-empty,
\* the columns renamed, Source_Sheet added
FilteredSheet(sheet, sheet_name) ==
    LET kept == SelectSeq(sheet.rows, LAMBDA r : NonEmpty(r[TARGET_COLUMN]))
        cols == [i \in 1..Len(sheet.cols) |-> RenameColumn(sheet.cols[i])]
                \o <<"Source_Sheet">>
    IN Table(cols,
             [k \in 1..Len(kept) |->
                [c \in Range(cols) |->
                    IF c = "Source_Sheet" THEN sheet_name
                    ELSE kept[k][CHOOSE o \in Range(sheet.cols) :
                                    RenameColumn(o) = c]]])

\* the columns of pd.concat(frames): every column, in order of appearance
RECURSIVE ConcatCols(_, _)
ConcatCols(frames, n) ==
    IF n = 0 THEN <<>>
    ELSE LET before == ConcatCols(frames, n - 1)
         IN before \o SelectSeq(frames[n].cols, LAMBDA c : c \notin Range(before))

RECURSIVE ConcatRows(_, _, _)
ConcatRows(frames, cols, n) ==
    IF n = 0 THEN <<>>
    ELSE ConcatRows(frames, cols, n - 1)
         \o [k \in 1..Len(frames[n].rows) |->
               [c \in Range(cols) |->
                  IF c \in Range(frames[n].cols) THEN frames[n].rows[k][c] ELSE NaN]]

\* pd.concat(frames, ignore_index=True)
Concat(frames) ==
    LET cols == ConcatCols(frames, Len(frames))
    IN Table(cols, ConcatRows(frames, cols, Len(frames)))

\* df[[col for col in columns_to_keep if col in df.columns]]
KeepColumns(df) ==
    LET cols == SelectSeq(columns_to_keep, LAMBDA c : c \in Range(df.cols))
    IN Table(cols,
             [k \in 1..Len(df.rows) |-> [c \in Range(cols) |-> df.rows[k][c]]])

\* load_previous_mapping(previous_file)
load_previous_mapping(given, file) ==
    IF ~given \/ ~file.exists THEN None ELSE Table(file.cols, file.rows)

\* validate_column_compatibility(new_df, previous_df)
validate_column_compatibility(new_df, prev_df) == new_df.cols = prev_df.cols

\* the rows of pd.merge(new_df, previous_df[cols_to_compare],
\* on=cols_to_compare, how='left', indicator=True): every new row once for
\* each previous row equal to it on the shared columns ("both"), or once
\* alone ("left_only"), in the order of new_df
RECURSIVE LeftMerge(_, _, _, _)
LeftMerge(new_rows, prev_rows, cols_to_compare, i) ==
    IF i > Len(new_rows) THEN <<>>
    ELSE LET hits == SelectSeq(prev_rows,
                        LAMBDA q : \A c \in Range(cols_to_compare) :
                                      q[c] = new_rows[i][c])
         IN (IF hits = <<>>
             THEN <<[row |-> new_rows[i], merge |-> "left_only"]>>
             ELSE [k \in 1..Len(hits) |->
                     [row |-> new_rows[i], merge |-> "both"]])
            \o LeftMerge(new_rows, prev_rows, cols_to_compare, i + 1)

\* the rows of the merged frame with the given indicator, re-indexed from 0
RowsMarked(merged, mark) ==
    LET sel == SelectSeq(merged, LAMBDA e : e.merge = mark)
    IN [k \in 1..Len(sel) |-> sel[k].row]

\* find_duplicates(new_df, previous_df)
find_duplicates(new_df, prev_df) ==
    IF prev_df = None \/ Len(prev_df.rows) = 0
    THEN [duplicates |-> EmptyTable, unique_new |-> new_df]
    ELSE LET cols_to_compare ==
                SelectSeq(new_df.cols, LAMBDA c : c \in Range(prev_df.cols))
             merged == LeftMerge(new_df.rows, prev_df.rows, cols_to_compare, 1)
         IN [duplicates |-> Table(new_df.cols, RowsMarked(merged, "both")),
             unique_new |-> Table(new_df.cols, RowsMarked(merged, "left_only"))]

\* duplicates.index: the row labels of a frame after reset_index(drop=True)
IndexOf(df) == 0..(Len(df.rows) - 1)

\* merge_mappings(new_df, previous_df, duplicates): the rows of new_df whose
\* label is no label of duplicates, after the rows of previous_df
merge_mappings(new_df, prev_df, dups) ==
    IF prev_df = None THEN new_df
    ELSE LET keep == SelectSeq([i \in 1..Len(new_df.rows) |-> i],
                        LAMBDA i : (i - 1) \notin IndexOf(dups))
         IN Concat(<<prev_df,
                     Table(new_df.cols,
                           [k \in 1..Len(keep) |-> new_df.rows[keep[k]]])>>)

\* the workbooks and previous mappings of the model
SheetCols == <<"Modality", "StudyDescription", "Suggested LOINC code", "LOINC LCN">>

SheetColsNoTarget == <<"Modality", "StudyDescription", "Suggested LOINC code">>

SheetRow(sd, lcn) ==
    [c \in Range(SheetCols) |->
        IF c = "Modality" THEN <<"X", "R">>
        ELSE IF c = "StudyDescription" THEN sd
        ELSE IF c = "Suggested LOINC code" THEN <<"1">>
        ELSE lcn]

SheetRows ==
    {SheetRow(<<"a">>, <<"n">>), SheetRow(<<"b">>, <<"n">>),
     SheetRow(<<"a">>, NaN), SheetRow(<<"a">>, <<" ">>)}

\* a sheet of the workbook: absent, unreadable, without the target column,
\* or with rows
Sheets ==
    {[present |-> FALSE, parsable |-> TRUE, cols |-> <<>>, rows |-> <<>>],
     [present |-> TRUE, parsable |-> FALSE, cols |-> <<>>, rows |-> <<>>],
     [present |-> TRUE, parsable |-> TRUE, cols |-> SheetColsNoTarget, rows |-> <<>>]}
    \cup {[present |-> TRUE, parsable |-> TRUE, cols |-> SheetCols, rows |-> rows] :
            rows \in SeqUpTo(SheetRows, MaxSheetRows)}

Workbooks ==
    {[exists |-> FALSE, sheets |-> <<>>]}
    \cup {[exists |-> TRUE, sheets |-> sh] : sh \in [Range(DEFAULT_SHEETS) -> Sheets]}

PreviousRow(sd) ==
    [c \in Range(columns_to_keep) |->
        IF c = "Modality" THEN <<"X", "R">>
        ELSE IF c = "StudyDescription" THEN sd
        ELSE IF c = "LOINC code" THEN <<"1">>
        ELSE <<"n">>]

PreviousFiles ==
    {NoFile}
    \cup {File(cols, rows) :
            cols \in {columns_to_keep,
                      <<"StudyDescription", "Modality", "LOINC code",
                        "L-Long Common Name">>},
            rows \in SeqUpTo({PreviousRow(<<"a">>), PreviousRow(<<"b">>)},
                             MaxPreviousRows)}

InitXlsx ==
    /\ NormIdle
    /\ AnalyzeIdle
    /\ workbook \in Workbooks
    /\ previousArg \in BOOLEAN
    /\ mergedArg \in BOOLEAN
    /\ previousFile \in PreviousFiles
    /\ ~previousArg => previousFile = NoFile
    /\ outputFile = NoFile
    /\ mergedFile = NoFile
    /\ xPc = "main"
    /\ runNo = 1
    /\ sheetIdx = 0
    /\ all_data = <<>>
    /\ processed_count = 0
    /\ skipped_count = 0
    /\ combined_df = None
    /\ previous_df = None
    /\ duplicates = None
    /\ unique_new = None
    /\ merged_df = None
    /\ xExit = -1

\* sys.exit(code), or the return of main
XExit(code) ==
    /\ xPc' = "done"
    /\ xExit' = code

\* main: --merged requires --previous
XMain ==
    /\ xPc = "main"
    /\ IF mergedArg /\ ~previousArg
       THEN XExit(1)
       ELSE xPc' = "open" /\ UNCHANGED xExit
    /\ UNCHANGED <<xlsxFiles, runNo, xlsxRun>>
    /\ UNCHANGED <<normVars, analyzeVars>>

\* extract_excel_sheets up to the loop over the sheets
XOpen ==
    /\ xPc = "open"
    /\ IF ~workbook.exists
       THEN XExit(1) /\ UNCHANGED <<sheetIdx, all_data, processed_count, skipped_count>>
       ELSE /\ sheetIdx' = 1
            /\ all_data' = <<>>
            /\ processed_count' = 0
            /\ skipped_count' = 0
            /\ xPc' = "sheets"
            /\ UNCHANGED xExit
    /\ UNCHANGED <<xlsxFiles, runNo, combined_df, previous_df, duplicates,
                   unique_new, merged_df>>
    /\ UNCHANGED <<normVars, analyzeVars>>

\* one turn of the loop over sheet_names
XSheet ==
    /\ xPc = "sheets"
    /\ sheetIdx <= Len(DEFAULT_SHEETS)
    /\ LET sheet_name == DEFAULT_SHEETS[sheetIdx]
           sheet == workbook.sheets[sheet_name]
       IN IF \/ ~sheet.present
             \/ ~sheet.parsable
             \/ TARGET_COLUMN \notin Range(sheet.cols)
          THEN /\ skipped_count' = skipped_count + 1
               /\ UNCHANGED <<all_data, processed_count>>
          ELSE LET filtered_df == FilteredSheet(sheet, sheet_name)
               IN IF Len(filtered_df.rows) > 0
                  THEN /\ all_data' = Append(all_data, filtered_df)
                       /\ processed_count' = processed_count + 1
                       /\ UNCHANGED skipped_count
                  ELSE UNCHANGED <<all_data, processed_count, skipped_count>>
    /\ sheetIdx' = sheetIdx + 1
    /\ UNCHANGED <<xlsxFiles, xPc, runNo, combined_df, previous_df, duplicates,
                   unique_new, merged_df, xExit>>
    /\ UNCHANGED <<normVars, analyzeVars>>

\* the end of the loop: no data is fatal, otherwise the frames are combined
\* and the columns to keep selected
XCombine ==
    /\ xPc = "sheets"
    /\ sheetIdx > Len(DEFAULT_SHEETS)
    /\ IF all_data = <<>>
       THEN XExit(1) /\ UNCHANGED combined_df
       ELSE /\ combined_df' = KeepColumns(Concat(all_data))
            /\ xPc' = "load_previous"
            /\ UNCHANGED xExit
    /\ UNCHANGED <<xlsxFiles, runNo, sheetIdx, all_data, processed_count,
                   skipped_count, previous_df, duplicates, unique_new, merged_df>>
    /\ UNCHANGED <<normVars, analyzeVars>>

\* a step that writes the extracted file before the previous mapping is
\* looked at
XLoadPrevious_WritesFirst ==
    /\ xPc = "load_previous"
    /\ previous_df' = load_previous_mapping(previousArg, previousFile)
    /\ merged_df' = None
    /\ outputFile' = File(combined_df.cols, combined_df.rows)
    /\ xPc' = "dedupe"
    /\ UNCHANGED <<workbook, previousArg, mergedArg, previousFile, mergedFile,
                   runNo, sheetIdx, all_data, processed_count,
                   skipped_count, combined_df, duplicates, unique_new, xExit>>
    /\ UNCHANGED <<normVars, analyzeVars>>

\* previous_df = load_previous_mapping(previous_file); merged_df = None
XLoadPrevious ==
    /\ xPc = "load_previous"
    /\ previous_df' = load_previous_mapping(previousArg, previousFile)
    /\ merged_df' = None
    /\ xPc' = "dedupe"
    /\ UNCHANGED <<xlsxFiles, runNo, sheetIdx, all_data, processed_count,
                   skipped_count, combined_df, duplicates, unique_new, xExit>>
    /\ UNCHANGED <<normVars, analyzeVars>>

\* lines 265-290: the column check, which returns from extract_excel_sheets
\* on a mismatch, duplicate detection and the merged mapping
XDedupe ==
    /\ xPc = "dedupe"
    /\ IF previous_df = None
       THEN /\ xPc' = "save_extracted"
            /\ UNCHANGED <<duplicates, unique_new, merged_df, xExit>>
       ELSE IF ~validate_column_compatibility(combined_df, previous_df)
       THEN /\ XExit(0)
            /\ UNCHANGED <<duplicates, unique_new, merged_df>>
       ELSE LET found == find_duplicates(combined_df, previous_df)
            IN /\ duplicates' = found.duplicates
               /\ unique_new' = found.unique_new
               /\ merged_df' = IF mergedArg
                               THEN merge_mappings(combined_df, previous_df,
                                                   found.duplicates)
                               ELSE merged_df
               /\ xPc' = "save_extracted"
               /\ UNCHANGED xExit
    /\ UNCHANGED <<xlsxFiles, runNo, sheetIdx, all_data, processed_count,
                   skipped_count, combined_df, previous_df>>
    /\ UNCHANGED <<normVars, analyzeVars>>

\* combined_df.to_csv(output_file)
XSaveExtracted ==
    /\ xPc = "save_extracted"
    /\ outputFile' = File(combined_df.cols, combined_df.rows)
    /\ xPc' = "save_merged"
    /\ UNCHANGED <<workbook, previousArg, mergedArg, previousFile, mergedFile,
                   runNo, xlsxRun, xExit>>
    /\ UNCHANGED <<normVars, analyzeVars>>

\* merged_df.to_csv(merged_output) if there is a merged mapping, and the
\* return of extract_excel_sheets and of main
XSaveMerged ==
    /\ xPc = "save_merged"
    /\ IF merged_df # None /\ mergedArg
       THEN mergedFile' = File(merged_df.cols, merged_df.rows)
       ELSE UNCHANGED mergedFile
    /\ XExit(0)
    /\ UNCHANGED <<workbook, previousArg, mergedArg, previousFile, outputFile,
                   runNo, xlsxRun>>
    /\ UNCHANGED <<normVars, analyzeVars>>

\* the merged mapping becomes the mapping table and the same workbook is
\* merged into it again
XRunAgain ==
    /\ xPc = "done"
    /\ xExit = 0
    /\ mergedFile.exists
    /\ runNo < MaxRuns
    /\ previousFile' = mergedFile
    /\ runNo' = runNo + 1
    /\ xPc' = "main"
    /\ xExit' = -1
    /\ sheetIdx' = 0
    /\ all_data' = <<>>
    /\ processed_count' = 0
    /\ skipped_count' = 0
    /\ combined_df' = None
    /\ previous_df' = None
    /\ duplicates' = None
    /\ unique_new' = None
    /\ merged_df' = None
    /\ UNCHANGED <<workbook, previousArg, mergedArg, outputFile, mergedFile>>
    /\ UNCHANGED <<normVars, analyzeVars>>

NextXlsx ==
    \/ XMain \/ XOpen \/ XSheet \/ XCombine \/ XLoadPrevious \/ XDedupe
    \/ XSaveExtracted \/ XSaveMerged \/ XRunAgain

SpecXlsx == InitXlsx /\ [][NextXlsx]_vars

-----------------------------------------------------------------------------
(* Runs of either script that an interrupt may end *)

\* analyze_in_out.py, lines 413-415: a KeyboardInterrupt raised anywhere in
\* the workflow ends the run with status 1
KeyboardInterrupt ==
    /\ aPc \notin {"idle", "done"}
    /\ Exit(1)
    /\ UNCHANGED <<analyzeFiles, mapping_df, diffVars, validateVars>>
    /\ UNCHANGED <<normVars, xlsxVars>>

\* the status of a Python process that a KeyboardInterrupt nobody catches
\* ends
SIGINT_STATUS == 130

\* xlsx2tsv.py catches no KeyboardInterrupt: the run ends where it is
XInterrupt ==
    /\ xPc \notin {"idle", "done"}
    /\ XExit(SIGINT_STATUS)
    /\ UNCHANGED <<xlsxFiles, runNo, xlsxRun>>
    /\ UNCHANGED <<normVars, analyzeVars>>

InitOutputs == InitReconcile \/ InitXlsx

NextOutputs == NextDiff \/ NextXlsx \/ KeyboardInterrupt \/ XInterrupt

SpecOutputs == InitOutputs /\ [][NextOutputs]_vars

-----------------------------------------------------------------------------
(* The key normalizer applied to arbitrary raw strings *)

NormChars == {"a", "A", " ", "\t"}

RawStrings == UNION {[1..k -> NormChars] : k \in 0..MaxLen}

\* t differs from s in letter case only
SameUpToCase(s, t) ==
    /\ Len(s) = Len(t)
    /\ \A i \in 1..Len(s) :
         \/ s[i] = t[i]
         \/ (s[i] \in DOMAIN UpperOf /\ UpperOf[s[i]] = t[i])
         \/ (t[i] \in DOMAIN UpperOf /\ UpperOf[t[i]] = s[i])

InitNorm ==
    /\ AnalyzeIdle
    /\ XlsxIdle
    /\ nPc = "raw"
    /\ nText \in RawStrings
    /\ nVariant = nText
    /\ nInput = NaN
    /\ nMapping = NaN
    /\ nVariantInput = NaN
    /\ nTwice = NaN

\* the same description typed with another capitalisation
Recase ==
    /\ nPc = "raw"
    /\ \E t \in RawStrings :
         /\ SameUpToCase(nText, t)
         /\ t # nVariant
         /\ nVariant' = t
    /\ UNCHANGED <<nPc, nText, nInput, nMapping, nVariantInput, nTwice>>
    /\ UNCHANGED <<analyzeVars, xlsxVars>>

\* both loaders normalize the description
NormalizeBothSides ==
    /\ nPc = "raw"
    /\ nInput' = NormalizeInputSD(nText)
    /\ nVariantInput' = NormalizeInputSD(nVariant)
    /\ nMapping' = NormalizeMappingSD(nText)
    /\ nPc' = "normalized"
    /\ UNCHANGED <<nText, nVariant, nTwice>>
    /\ UNCHANGED <<analyzeVars, xlsxVars>>

\* a normalized description is fed to the loader again
NormalizeAgain ==
    /\ nPc = "normalized"
    /\ nTwice' = NormalizeInputSD(nInput)
    /\ nPc' = "renormalized"
    /\ UNCHANGED <<nText, nVariant, nInput, nMapping, nVariantInput>>
    /\ UNCHANGED <<analyzeVars, xlsxVars>>

NextNorm == Recase \/ NormalizeBothSides \/ NormalizeAgain

SpecNorm == InitNorm /\ [][NextNorm]_vars

-----------------------------------------------------------------------------
(* Properties of the reconciliation *)

\* the atoms of a joined Modality: the stretches between its commas
AtomsOf(v) ==
    IF v = NaN THEN {NaN}
    ELSE {SubSeq(v, i, j - 1) :
            <<i, j>> \in {p \in (1..(Len(v) + 1)) \X (1..(Len(v) + 1)) :
                /\ p[1] <= p[2]
                /\ (p[1] = 1 \/ v[p[1] - 1] = ",")
                /\ (p[2] = Len(v) + 1 \/ v[p[2]] = ",")
                /\ \A k \in p[1]..(p[2] - 1) : v[k] # ","}}

\* the keys of the exploded view of the mapping file: every row under its
\* joined Modality and under each of its atoms
ExplodedKeys ==
    UNION {{<<NormalizeMappingSD(mappingFile.rows[i]["StudyDescription"]), m>> :
              m \in {str_replace_space(mappingFile.rows[i]["Modality"])}
                    \cup AtomsOf(str_replace_space(mappingFile.rows[i]["Modality"]))} :
           i \in 1..Len(mappingFile.rows)}

\* how many rows of the sequence have key k
CountKey(rows, k) == Cardinality({i \in 1..Len(rows) : KeyOf(rows[i]) = k})

\* find_unmapped_combinations has returned
Reconciled == aPc = "save" \/ (aPc = "done" /\ differences_df.cols # <<>>)

\* C1: the rows find_unmapped_combinations returns are exactly the candidate
\* rows whose key is no key of the exploded reference; a candidate whose
\* key is a reference row's joined Modality or one of its atoms is never
\* returned, every other candidate is.
C1_UnmappedAreTheCandidatesWithoutKey ==
    /\ aPc \in {"load_input", "find_unmapped", "save"} =>
          {KeyOf(mapping_df.rows[i]) : i \in 1..Len(mapping_df.rows)} = ExplodedKeys
    /\ Reconciled =>
          \A k \in {KeyOf(input_df.rows[i]) : i \in 1..Len(input_df.rows)}
                   \cup {KeyOf(differences_df.rows[i]) :
                           i \in 1..Len(differences_df.rows)} :
             CountKey(differences_df.rows, k) =
                IF k \in ExplodedKeys THEN 0 ELSE CountKey(input_df.rows, k)

\* a candidate with Modality P is matched by an atom of the reference row
\* "N, P" and the other candidate is returned
C1_Witness ==
    /\ aPc = "save"
    /\ Len(input_df.rows) = 2
    /\ Len(differences_df.rows) = 1
    /\ \A i \in 1..Len(mappingFile.rows) :
          mappingFile.rows[i]["Modality"] = <<"N", ",", " ", "P">>
    /\ \E i \in 1..2 :
          /\ input_df.rows[i]["Modality"] = <<"P">>
          /\ KeyOf(input_df.rows[i]) \in ExplodedKeys
          /\ KeyOf(differences_df.rows[1]) = KeyOf(input_df.rows[3 - i])
          /\ KeyOf(input_df.rows[3 - i]) \notin ExplodedKeys

-----------------------------------------------------------------------------
(* Properties of duplicate detection and merge *)

\* how many rows of the sequence equal r
CountRow(rows, r) == Cardinality({i \in 1..Len(rows) : rows[i] = r})

\* find_duplicates has run in this run of the script
Deduplicated == xPc \in {"save_extracted", "save_merged", "done"} /\ duplicates # None

\* the rows of the new batch that do not appear in the previous mapping
GenuinelyNew ==
    SelectSeq(combined_df.rows, LAMBDA r : r \notin Range(previous_df.rows))

\* C2: the merged mapping is the previous mapping, every row kept in order,
\* followed by exactly the rows of the new batch that the previous mapping
\* does not hold.
C2_MergedIsPreviousThenGenuinelyNew ==
    (Deduplicated /\ mergedArg) =>
        merged_df.rows = previous_df.rows \o GenuinelyNew

\* C3: when the batch is merged again into the mapping its merge produced,
\* duplicate detection finds no new row.
C3_SecondMergeFindsNothingNew ==
    (Deduplicated /\ runNo = 2) => unique_new.rows = <<>>

\* the columns of the batch and of the previous mapping differ
ColumnMismatch ==
    /\ combined_df # None
    /\ previous_df # None
    /\ combined_df.cols # previous_df.cols

\* C4: on a column mismatch only the merge is abandoned: the run ends with
\* the extracted rows written to the output file and no merged file.
C4_MismatchStillWritesExtracted ==
    (xPc = "done" /\ ColumnMismatch) =>
        /\ outputFile = File(combined_df.cols, combined_df.rows)
        /\ ~mergedFile.exists

\* C10: find_duplicates splits the new batch: every row of the batch is once
\* in duplicates, if the previous mapping holds it, or once in uniqueNew, if
\* it does not, so the two together have as many rows as the batch; with an
\* empty previous mapping duplicates is empty and uniqueNew is the batch.
C10_DuplicatesAndUniqueNewPartitionTheBatch ==
    Deduplicated =>
        /\ Len(duplicates.rows) + Len(unique_new.rows) = Len(combined_df.rows)
        /\ \A r \in Range(combined_df.rows) :
              /\ CountRow(duplicates.rows, r) =
                    IF r \in Range(previous_df.rows)
                    THEN CountRow(combined_df.rows, r) ELSE 0
              /\ CountRow(unique_new.rows, r) =
                    IF r \in Range(previous_df.rows)
                    THEN 0 ELSE CountRow(combined_df.rows, r)
        /\ previous_df.rows = <<>> =>
              (duplicates.rows = <<>> /\ unique_new = combined_df)

-----------------------------------------------------------------------------
(* Properties of the validation *)

\* the checks have run and validate_mapping_table is about to return, or
\* has returned
Validated == aPc = "summary" \/ (aPc = "done" /\ validation_passed # "unset")

\* C5: the validation passes exactly when check 1 and check 2 found nothing,
\* whatever check 3 found; the three checks all run, in order; and the
\* process exits with 0 exactly when the validation passed, with 1 otherwise.
C5_PassedIffNoHardConflict ==
    /\ Validated =>
          /\ validation_passed \in {"True", "False"}
          /\ (validation_passed = "True") <=>
                (inconsistent_desc_mod = {} /\ inconsistent_loinc = {})
          /\ checksRun = <<1, 2, 3>>
    /\ aPc = "done" =>
          /\ exitStatus \in {0, 1}
          /\ (exitStatus = 0) <=> (validation_passed = "True")

\* a table with an advisory conflict only passes and exits with 0
C5_Witness ==
    /\ aPc = "done"
    /\ exitStatus = 0
    /\ validation_passed = "True"
    /\ inconsistent_desc_only # {}
    /\ checksRun = <<1, 2, 3>>

\* the rows of the validated table whose Modality and StudyDescription are
\* those of row i, a missing Modality being a key like any other
SameKeyRows(rows, i) ==
    {j \in 1..Len(rows) :
        /\ rows[j]["Modality"] = rows[i]["Modality"]
        /\ rows[j]["StudyDescription"] = rows[i]["StudyDescription"]}

\* the (Modality, StudyDescription) keys that carry more than one LOINC code
KeysWithSeveralCodes(rows) ==
    {[k \in {"Modality", "StudyDescription"} |-> rows[i][k]] :
        i \in {n \in 1..Len(rows) :
                 Cardinality({rows[j]["LOINC code"] : j \in SameKeyRows(rows, n)}
                             \ {NaN}) > 1}}

\* C6: the key conflicts are exactly the (joined Modality, normalized
\* StudyDescription) keys that carry more than one distinct LOINC code, a
\* missing Modality being a key like any other, and any such key fails the
\* validation.
C6_KeyConflictsAreTheKeysWithSeveralCodes ==
    aPc \in {"check2", "check3", "summary"} =>
        /\ inconsistent_desc_mod = KeysWithSeveralCodes(mapping_df.rows)
        /\ KeysWithSeveralCodes(mapping_df.rows) # {} => validation_passed = "False"

\* the LOINC codes whose rows carry more than one name, names compared as
\* the key normalizer leaves them (trimmed, runs collapsed, upper-cased)
CodesWithSeveralNames(rawRows) ==
    {NormalizeCode(rawRows[i]["LOINC code"]) :
        i \in {n \in 1..Len(rawRows) :
                 Cardinality(
                   {NormalizeMappingSD(rawRows[j]["L-Long Common Name"]) :
                      j \in {k \in 1..Len(rawRows) :
                               NormalizeCode(rawRows[k]["LOINC code"]) =
                               NormalizeCode(rawRows[n]["LOINC code"])}}
                   \ {NaN}) > 1}} \ {NaN}

\* C7: a LOINC code is a code conflict exactly when its rows carry more than
\* one distinct normalized L-Long Common Name, names that differ in letter
\* case or in the length of whitespace runs only being the same name.
C7_CodeConflictsAreTheCodesWithSeveralNames ==
    aPc \in {"check3", "summary"} =>
        /\ {g["LOINC code"] : g \in inconsistent_loinc} =
              CodesWithSeveralNames(mappingFile.rows)
        /\ CodesWithSeveralNames(mappingFile.rows) # {} <=>
              inconsistent_loinc # {}

-----------------------------------------------------------------------------
(* Properties of the key normalizer *)

\* s without any of its whitespace characters
RemoveWhitespace(s) == SelectSeq(s, LAMBDA c : ~IsSpace(c))

\* position i of s survives the clean-up: it holds a letter, or the last
\* whitespace character of a run that has letters on both sides
Survives(s, i) ==
    \/ ~IsSpace(s[i])
    \/ /\ i < Len(s)
       /\ ~IsSpace(s[i + 1])
       /\ \E j \in 1..(i - 1) : ~IsSpace(s[j])

RECURSIVE Survivors(_, _)
Survivors(s, i) ==
    IF i > Len(s) THEN <<>>
    ELSE (IF Survives(s, i) THEN <<UpperChar(s[i])>> ELSE <<>>)
         \o Survivors(s, i + 1)

\* C8 as stated: the normalization strips leading and trailing whitespace and
\* removes every interior whitespace run entirely, then upper-cases, on the
\* candidate side and on the reference side alike.
C8_AllWhitespaceRemoved ==
    nPc # "raw" =>
        /\ nInput = [i \in 1..Len(RemoveWhitespace(nText)) |->
                        UpperChar(RemoveWhitespace(nText)[i])]
        /\ nMapping = nInput

\* C8 amended: the normalization strips leading and trailing whitespace and
\* reduces every interior whitespace run to its last character, then
\* upper-cases; the candidate side and the reference side give the same key.
C8_RunsKeepLastCharacter ==
    nPc # "raw" =>
        /\ nInput = Survivors(nText, 1)
        /\ nMapping = Survivors(nText, 1)

C8_Witness ==
    /\ nPc = "normalized"
    /\ nText = <<"a", " ", "\t", "a">>
    /\ nInput = <<"A", "\t", "A">>
    /\ nMapping = <<"A", "\t", "A">>

\* C9: normalizing a normalized description changes nothing, and two
\* descriptions that differ in letter case only normalize to the same key.
C9_IdempotentCaseInsensitive ==
    /\ nPc = "renormalized" => nTwice = nInput
    /\ nPc # "raw" => nVariantInput = nInput

C9_Witness ==
    /\ nPc = "renormalized"
    /\ nText = <<" ", "a", " ", "A">>
    /\ nVariant = <<" ", "A", " ", "a">>
    /\ nInput = <<"A", " ", "A">>
    /\ nTwice = nInput

-----------------------------------------------------------------------------
(* Properties of the rows reported as unmapped *)

\* how many rows of the sequence have key k and frequency f
CountKeyFrequency(rows, k, f) ==
    Cardinality({i \in 1..Len(rows) : KeyOf(rows[i]) = k /\ rows[i]["frequency"] = f})

\* C11: every row find_unmapped_combinations returns carries CONTRIBUTOR_NAME;
\* if the candidate table has a frequency column the row carries the
\* frequency of its candidate row, and DEFAULT_FREQUENCY only if the
\* candidate table has no frequency column, whatever the columns of the
\* mapping table.
C11_RowsCarryContributorAndOwnFrequency ==
    Reconciled =>
        \A k \in 1..Len(differences_df.rows) :
            LET r == differences_df.rows[k] IN
            /\ r["Contributor"] = CONTRIBUTOR_NAME
            /\ IF "frequency" \in Range(input_df.cols)
               THEN CountKeyFrequency(differences_df.rows, KeyOf(r), r["frequency"])
                    = CountKeyFrequency(input_df.rows, KeyOf(r), r["frequency"])
               ELSE r["frequency"] = DEFAULT_FREQUENCY

-----------------------------------------------------------------------------
(* Properties of the extraction *)

\* the sheet cannot be used: it is missing, cannot be parsed or has no
\* trigger column
Unusable(sheet) ==
    \/ ~sheet.present
    \/ ~sheet.parsable
    \/ TARGET_COLUMN \notin Range(sheet.cols)

\* the sheet has a row whose trigger value is neither missing nor blank
Contributes(sheet) ==
    /\ ~Unusable(sheet)
    /\ \E i \in 1..Len(sheet.rows) :
          /\ sheet.rows[i][TARGET_COLUMN] # NaN
          /\ RemoveWhitespace(sheet.rows[i][TARGET_COLUMN]) # <<>>

NoSheetContributes ==
    \/ ~workbook.exists
    \/ \A i \in 1..Len(DEFAULT_SHEETS) : ~Contributes(workbook.sheets[DEFAULT_SHEETS[i]])

\* the sheets the loop has been through
SheetsSeen == IF xPc = "sheets" THEN 1..(sheetIdx - 1) ELSE 1..Len(DEFAULT_SHEETS)

\* C12: if no requested sheet contributes a row the run ends with a non-zero
\* exit status and neither the extracted file nor the merged file is
\* written; an unusable sheet is skipped and counted, and the sheets after
\* it are still processed.
C12_NoDataIsFatalAndUnusableSheetsAreSkipped ==
    /\ (xPc = "done" /\ NoSheetContributes) =>
          /\ xExit # 0
          /\ outputFile = NoFile
          /\ mergedFile = NoFile
    /\ (xPc \in {"sheets", "load_previous", "dedupe", "save_extracted", "save_merged"}) =>
          /\ skipped_count =
                Cardinality({i \in SheetsSeen : Unusable(workbook.sheets[DEFAULT_SHEETS[i]])})
          /\ processed_count =
                Cardinality({i \in SheetsSeen : Contributes(workbook.sheets[DEFAULT_SHEETS[i]])})
          /\ Len(all_data) = processed_count
          /\ \A i \in SheetsSeen :
                Contributes(workbook.sheets[DEFAULT_SHEETS[i]]) =>
                   \E k \in 1..Len(all_data) :
                      all_data[k].rows[1]["Source_Sheet"] = DEFAULT_SHEETS[i]

\* the first sheet is missing and skipped, the second is read and holds
\* only a blank trigger value: the run ends with status 1
C12_Witness ==
    /\ xPc = "done"
    /\ xExit = 1
    /\ workbook.exists
    /\ ~workbook.sheets[DEFAULT_SHEETS[1]].present
    /\ ~Unusable(workbook.sheets[DEFAULT_SHEETS[2]])
    /\ Len(workbook.sheets[DEFAULT_SHEETS[2]].rows) = 1
    /\ skipped_count = 1
    /\ processed_count = 0
    /\ outputFile = NoFile

-----------------------------------------------------------------------------
(* Properties of the output files *)

\* the steps of xlsx2tsv.py before its first write
LoadingOrComputing ==
    {"main", "open", "sheets", "load_previous", "dedupe", "save_extracted"}

\* C13: an output file changes only in the step that follows all the
\* computation for it (the unmapped file after reconciliation, written
\* sorted; the extracted file after extraction, duplicate detection and
\* merge; the merged file after the merge), and a run that a fatal error or
\* an interrupt ends during loading or computation leaves every output file
\* as it was.
C13_OutputsWrittenOnlyAfterComputation ==
    [][/\ pendingFile' # pendingFile =>
             /\ aPc = "save"
             /\ differences_df = find_unmapped_combinations(input_df, mapping_df)
             /\ pendingFile' =
                   File(COLUMNS_OUTPUT,
                        SortByFrequency(differences_df.rows, Len(differences_df.rows)))
             /\ exitStatus' = 0
       /\ outputFile' # outputFile =>
             /\ xPc = "save_extracted"
             /\ outputFile' = File(combined_df.cols, combined_df.rows)
             /\ previous_df # None => duplicates # None
             /\ (previous_df # None /\ mergedArg) => merged_df # None
       /\ mergedFile' # mergedFile =>
             /\ xPc = "save_merged"
             /\ mergedFile' = File(merged_df.cols, merged_df.rows)
       /\ (aPc # "done" /\ aPc' = "done" /\ exitStatus' # 0) =>
             pendingFile' = pendingFile
       /\ (xPc \in LoadingOrComputing /\ xPc' = "done" /\ xExit' # 0) =>
             /\ outputFile' = outputFile
             /\ mergedFile' = mergedFile
             /\ runNo = 1 => (outputFile = NoFile /\ mergedFile = NoFile)
             /\ runNo = 2 => mergedFile = previousFile
      ]_vars

\* an interrupt ended the run after the unmapped rows were found and before
\* they were written: the file of the earlier run is as it was
C13_Witness ==
    /\ aPc = "done"
    /\ exitStatus = 1
    /\ differences_df.rows # <<>>
    /\ pendingFile = OldPendingFile

-----------------------------------------------------------------------------
(* Properties of the exploded reference *)

\* load_and_prepare_mapping_table has returned
Prepared == aPc \in {"load_input", "find_unmapped", "save"}

\* reference row r under Modality m, its StudyDescription normalized
Variant(r, m) ==
    [r EXCEPT !["Modality"] = m,
              !["StudyDescription"] = NormalizeMappingSD(@)]

\* the rows the exploded reference is to hold: every reference row under
\* its joined Modality and under each atom of it
ExplodedRows ==
    UNION {{Variant(mappingFile.rows[i], m) :
              m \in {str_replace_space(mappingFile.rows[i]["Modality"])}
                    \cup AtomsOf(str_replace_space(mappingFile.rows[i]["Modality"]))} :
           i \in 1..Len(mappingFile.rows)}

\* C14: the exploded reference holds, for every reference row, the row with
\* its joined Modality and one row per atom, and no two of its rows are
\* equal in all columns, rows that become equal once StudyDescription is
\* normalized included.
C14_ExplodedReferenceHasNoEqualRows ==
    Prepared =>
        /\ Range(mapping_df.rows) = ExplodedRows
        /\ \A i, j \in 1..Len(mapping_df.rows) :
              i # j => mapping_df.rows[i] # mapping_df.rows[j]

-----------------------------------------------------------------------------
(* Properties of the Modality match *)

\* a Modality with all its whitespace removed
StripAll(v) == IF v = NaN THEN NaN ELSE RemoveWhitespace(v)

\* candidate row c and reference row r agree on StudyDescription, and the
\* Modality of c is, whitespace apart, the joined Modality of r or one of
\* its atoms
MatchesUpToWhitespace(c, r) ==
    /\ NormalizeInputSD(c["StudyDescription"]) = NormalizeMappingSD(r["StudyDescription"])
    /\ StripAll(c["Modality"]) \in
          {StripAll(r["Modality"])} \cup AtomsOf(StripAll(r["Modality"]))

\* C15: all whitespace is removed from the Modality of both sides before
\* matching, so a candidate whose Modality differs from a reference row's
\* joined Modality or atom only by whitespace is matched and is not
\* reported as unmapped.
C15_ModalityMatchesUpToWhitespace ==
    Reconciled =>
        \A i \in 1..Len(inputFile.rows) :
            (\E j \in 1..Len(mappingFile.rows) :
                MatchesUpToWhitespace(inputFile.rows[i], mappingFile.rows[j]))
            => CountKey(differences_df.rows, KeyOf(CleanInputRow(inputFile.rows[i]))) = 0

-----------------------------------------------------------------------------
(* Properties of a run with nothing to report *)

\* find_unmapped_combinations returned no row
NothingUnmapped == aPc = "save" /\ differences_df.rows = <<>>

\* load_and_clean_input_data finds no contributor file
InputAbsent == aPc = "load_input" /\ ~inputFile.exists

\* C16: in diff mode, when no combination is unmapped or the contributor
\* file is absent, the step that ends the run leaves the unmapped file as it
\* is (not created, not truncated, not removed) and the exit status is 0.
C16_NothingToReportWritesNothing ==
    [][(NothingUnmapped \/ InputAbsent) =>
          /\ pendingFile' = pendingFile
          /\ aPc' = "done"
          /\ exitStatus' = 0
      ]_vars

\* every candidate was matched and the file an earlier run left is as it was
C16_Witness ==
    /\ aPc = "done"
    /\ exitStatus = 0
    /\ Len(input_df.rows) > 0
    /\ differences_df.cols = COLUMNS_OUTPUT
    /\ differences_df.rows = <<>>
    /\ pendingFile = OldPendingFile
====
